---- MODULE Spec2Model ----
(***************************************************************************)
(* Product / order backend of src/main.py: two collections of a document  *)
(* store ("products", "orders"), the four business endpoints and the two   *)
(* probes.  Text is modelled as a tuple of one-character strings, money as *)
(* integers, an Optional value as <<>> (None) or <<v>>.                    *)
(***************************************************************************)
EXTENDS Integers, Sequences, FiniteSets, TLC

VARIABLES
    products,   \* db.products: documents in natural (insertion) order
    orders,     \* db.orders: documents in natural (insertion) order
    storeUp,    \* whether the store answers the operations of `client`
    now,        \* the server clock read by datetime.utcnow()
    pending,    \* per request slot: the position of an in-flight create_order
    last        \* the response of the request that completed last

vars == <<products, orders, storeUp, now, pending, last>>

----------------------------------------------------------------------------
(* Bounds of the model *)

MaxProducts == 3
MaxOrders == 2
MaxLimit == 2
MaxOffset == 2

----------------------------------------------------------------------------
(* Optional values and small sequence helpers *)

None == <<>>
Some(v) == <<v>>

Range(s) == {s[i] : i \in 1..Len(s)}

Min(a, b) == IF a < b THEN a ELSE b

Abs(n) == IF n < 0 THEN -n ELSE n

----------------------------------------------------------------------------
(* bson.ObjectId: the store's identifier type and its 24-hex-digit text *)

OidLen == 24

HexDigits == <<"0", "1", "2", "3", "4", "5", "6", "7",
               "8", "9", "a", "b", "c", "d", "e", "f">>

UpperHex == <<"A", "B", "C", "D", "E", "F">>

HexChars == Range(HexDigits) \cup Range(UpperHex)

HexVal(c) ==
    IF c \in Range(UpperHex)
    THEN 9 + CHOOSE i \in 1..Len(UpperHex) : UpperHex[i] = c
    ELSE (CHOOSE i \in 1..Len(HexDigits) : HexDigits[i] = c) - 1

\* ObjectId.is_valid on a str: exactly 24 characters, all hexadecimal
IsValidOid(t) == Len(t) = OidLen /\ \A i \in 1..Len(t) : t[i] \in HexChars

RECURSIVE HexToNat(_, _)
HexToNat(t, k) == IF k = 0 THEN 0 ELSE 16 * HexToNat(t, k - 1) + HexVal(t[k])

\* ObjectId(text) for a valid text: the identifier it denotes
ObjectId(t) == HexToNat(t, Len(t))

RECURSIVE NatToHex(_, _)
NatToHex(n, k) ==
    IF k = 0 THEN <<>> ELSE Append(NatToHex(n \div 16, k - 1), HexDigits[(n % 16) + 1])

\* str(oid): 24 lower-case hex digits
Str(oid) == NatToHex(oid, OidLen)

----------------------------------------------------------------------------
(* The document store (pymongo), as far as main.py uses it *)

\* insert_one: the store generates the _id, unique in the collection, and
\* appends the document in natural order
InsertOne(coll, doc) ==
    Append(coll, [f \in DOMAIN doc \cup {"_id"} |->
                    IF f = "_id" THEN Len(coll) + 1 ELSE doc[f]])

\* the _id insert_one reports for the document it is about to add
InsertedId(coll) == Len(coll) + 1

\* find_one({}): the filter left out, any document is found
FindOneUnfiltered(coll, oid) == IF coll = <<>> THEN None ELSE Some(coll[1])

\* find_one({"_id": oid}): None, or the document
FindOne(coll, oid) ==
    IF \E i \in 1..Len(coll) : coll[i]._id = oid
    THEN Some(coll[CHOOSE i \in 1..Len(coll) : coll[i]._id = oid])
    ELSE None

\* cursor.skip(n) for n >= 0 (a negative n raises ValueError)
Skip(s, n) == SubSeq(s, n + 1, Len(s))

\* cursor.limit(n): 0 means no limit, a negative n is a single batch of -n
Limit(s, n) == IF n = 0 THEN s ELSE SubSeq(s, 1, Min(Abs(n), Len(s)))

\* "$options": "i"
Lower(c) == CASE c = "A" -> "a" [] c = "B" -> "b" [] OTHER -> c

\* the store rejects a pattern it cannot compile (an unbalanced parenthesis)
RegexCompiles(pat) == "(" \notin Range(pat)

\* {"$regex": pat, "$options": "i"} for patterns of letters and ".": the
\* pattern is searched anywhere in the text, "." standing for any character
RegexSearch(pat, text) ==
    \E s \in 0..(Len(text) - Len(pat)) :
        \A i \in 1..Len(pat) : pat[i] = "." \/ Lower(pat[i]) = Lower(text[s + i])

----------------------------------------------------------------------------
(* Pydantic models and helper functions *)

\* ProductRequest: name, price and sizes are required
ProductRequestValid(body) == {"name", "price", "sizes"} \subseteq DOMAIN body

\* product.dict(): description defaults to None
ProductDict(body) ==
    [name |-> body.name,
     price |-> body.price,
     description |-> IF "description" \in DOMAIN body THEN Some(body.description) ELSE None,
     sizes |-> body.sizes]

\* OrderRequest: user_id, items and user_address are required
OrderRequestValid(body) == {"user_id", "items", "user_address"} \subseteq DOMAIN body

product_helper(product) ==
    [product_id |-> Str(product._id),
     name |-> product.name,
     price |-> product.price,
     description |-> product.description,
     sizes |-> product.sizes]

order_helper(order) ==
    [order_id |-> Str(order._id),
     user_id |-> order.user_id,
     items |-> order.items,
     user_address |-> order.user_address,
     timestamp |-> order.timestamp,
     total_amount |-> order.total_amount]

\* the loop appending product_helper(product) for each product of the cursor
ProductsOf(cursor) == [i \in 1..Len(cursor) |-> product_helper(cursor[i])]

\* the loop appending order_helper(order) for each order of the cursor
OrdersOf(cursor) == [i \in 1..Len(cursor) |-> order_helper(cursor[i])]

RECURSIVE SumByQuantity(_, _)
SumByQuantity(items, k) ==
    IF k = 0 THEN 0
    ELSE SumByQuantity(items, k - 1) + items[k].bought_quantity * items[k].total_amount

\* the total recomputed from the quantities
SumAmountsByQuantity(items) == SumByQuantity(items, Len(items))

RECURSIVE SumFrom(_, _)
SumFrom(items, k) ==
    IF k = 0 THEN 0 ELSE SumFrom(items, k - 1) + items[k].total_amount

\* sum(item.total_amount for item in order.items)
SumAmounts(items) == SumFrom(items, Len(items))

\* a response: the operation, its request, the status and the JSON body
Response(op, req, status, body) ==
    [op |-> op, req |-> req, status |-> status, body |-> body]

\* {"detail": ...}: the body of an HTTPException or of a validation error
Detail(d) == [detail |-> d]

NoRequest == [none |-> TRUE]

Idle == [pc |-> "idle", order |-> NoRequest, idx |-> 0]

----------------------------------------------------------------------------
(* Requests the clients send *)

Tee == [name |-> <<"A", "b">>, price |-> 2,
        sizes |-> << [size |-> "M", quantity |-> 5] >>]

Cap == [name |-> <<"b">>, price |-> -1, description |-> "soft",
        sizes |-> << [size |-> "m", quantity |-> 1] >>]

NoPrice == [name |-> <<"b">>, sizes |-> <<>>]

\* the product requests of the write-path specification
ProductBodies == {Tee, NoPrice}

\* the product requests of the catalog specification
CatalogBodies == {Tee, Cap}

BadId == <<"x", "y", "z">>

Item(pid, q, a) == [product_id |-> pid, bought_quantity |-> q, total_amount |-> a]

First == Item(Str(1), 2, 3)
Second == Item(Str(2), 1, 4)
Broken == Item(BadId, 1, 1)

ItemLists == {<<>>, <<First, Second>>, <<Second, First>>,
              <<First, Broken>>, <<Broken, Second>>}

Users == {"u1", "u2"}

NoItems == [user_id |-> "u1", user_address |-> "1 Main St"]

\* the order requests of the write-path specification
OrderBodies ==
    [user_id : {"u1"}, items : ItemLists, user_address : {"1 Main St"}] \cup {NoItems}

\* the order requests of the user-orders specification
UserOrderBodies ==
    [user_id : Users, items : {<<First>>}, user_address : {"1 Main St"}]

\* name patterns of the catalog specification: None, the empty text,
\* literals, a "."
NamePatterns == {None, Some(<<>>), Some(<<"a">>), Some(<<"A", "B">>), Some(<<".">>)}

SizeFilters == {None, Some(""), Some("M")}

Limits == 0..MaxLimit

Offsets == 0..MaxOffset

\* product queries of the write-path specification: <<name, size, limit, offset>>
\* with an empty text, a pattern the store rejects, negative numbers
EdgeQueries == {<<Some(<<"a">>), None, 1, 0>>,
                <<Some(<<"(">>), Some(""), -1, 0>>,
                <<Some(<<>>), Some("M"), 1, -1>>}

\* the instants the clock shows
Instants == {0, 1}

\* request slots: create_order requests that can be in flight together
Workers == {"w1", "w2"}

Single == {"w1"}

----------------------------------------------------------------------------
(* The state after construction: both collections empty, nothing in flight *)

Init ==
    /\ products = <<>>
    /\ orders = <<>>
    /\ storeUp = TRUE
    /\ now = 0
    /\ pending = [w \in Workers |-> Idle]
    /\ last = Response("start", NoRequest, 0, Detail(<<"none">>))

----------------------------------------------------------------------------
(* POST /products *)

create_product(body) ==
    /\ UNCHANGED <<orders, storeUp, now, pending>>
    /\ IF ~ProductRequestValid(body)
       THEN /\ last' = Response("create_product", body, 422, Detail(<<"validation">>))
            /\ UNCHANGED products
       ELSE IF ~storeUp
       THEN /\ last' = Response("create_product", body, 500, Detail(<<"store">>))
            /\ UNCHANGED products
       ELSE /\ Len(products) < MaxProducts
            /\ products' = InsertOne(products, ProductDict(body) @@ [created_at |-> now])
            /\ last' = Response("create_product", body, 201,
                                [product_id |-> Str(InsertedId(products))])

----------------------------------------------------------------------------
(* POST /orders: one store operation per step *)

\* the request is parsed and the handler entered
BeginOrder(w, body) ==
    /\ pending[w].pc = "idle"
    /\ UNCHANGED <<products, orders, storeUp, now>>
    /\ IF ~OrderRequestValid(body)
       THEN /\ last' = Response("create_order", body, 422, Detail(<<"validation">>))
            /\ UNCHANGED pending
       ELSE /\ pending' = [pending EXCEPT ![w] =
                [pc |-> IF body.items = <<>> THEN "insert" ELSE "lookup",
                 order |-> body, idx |-> 1]]
            /\ UNCHANGED last

\* one turn of the loop over order.items
LookupItem(w) ==
    LET order == pending[w].order
        idx == pending[w].idx
        pid == order.items[idx].product_id
    IN  /\ pending[w].pc = "lookup"
        /\ UNCHANGED <<products, orders, storeUp, now>>
        /\ IF ~IsValidOid(pid)
           THEN /\ last' = Response("create_order", order, 500, Detail(<<"InvalidId">>))
                /\ pending' = [pending EXCEPT ![w] = Idle]
           ELSE IF ~storeUp
           THEN /\ last' = Response("create_order", order, 500, Detail(<<"store">>))
                /\ pending' = [pending EXCEPT ![w] = Idle]
           ELSE IF FindOne(products, ObjectId(pid)) = None
           THEN /\ last' = Response("create_order", order, 400,
                                    Detail(<<"Product", pid, "not found">>))
                /\ pending' = [pending EXCEPT ![w] = Idle]
           ELSE /\ pending' = [pending EXCEPT ![w] =
                    IF idx = Len(order.items)
                    THEN [@ EXCEPT !.pc = "insert"]
                    ELSE [@ EXCEPT !.idx = idx + 1]]
                /\ UNCHANGED last

\* the order inserted and the stock of the first product reduced
InsertOrderTakingStock(w) ==
    LET order == pending[w].order
    IN  /\ pending[w].pc = "insert"
        /\ storeUp
        /\ Len(orders) < MaxOrders
        /\ UNCHANGED <<storeUp, now>>
        /\ pending' = [pending EXCEPT ![w] = Idle]
        /\ products' = [i \in 1..Len(products) |->
                IF i = 1 THEN [products[i] EXCEPT !.price = @ + 1] ELSE products[i]]
        /\ orders' = InsertOne(orders,
                        [user_id |-> order.user_id,
                         items |-> order.items,
                         user_address |-> order.user_address,
                         timestamp |-> now,
                         total_amount |-> SumAmounts(order.items)])
        /\ last' = Response("create_order", order, 201,
                            [id |-> Str(InsertedId(orders))])

\* the total is computed and the order inserted; insert_one always reports
\* the generated identifier, so the handler's else branch is never taken
InsertOrder(w) ==
    LET order == pending[w].order
    IN  /\ pending[w].pc = "insert"
        /\ UNCHANGED <<products, storeUp, now>>
        /\ pending' = [pending EXCEPT ![w] = Idle]
        /\ IF ~storeUp
           THEN /\ last' = Response("create_order", order, 500, Detail(<<"store">>))
                /\ UNCHANGED orders
           ELSE /\ Len(orders) < MaxOrders
                /\ orders' = InsertOne(orders,
                                [user_id |-> order.user_id,
                                 items |-> order.items,
                                 user_address |-> order.user_address,
                                 timestamp |-> now,
                                 total_amount |-> SumAmounts(order.items)])
                /\ last' = Response("create_order", order, 201,
                                    [id |-> Str(InsertedId(orders))])

----------------------------------------------------------------------------
(* The environment: the store's reachability and the clock *)

StoreFails ==
    /\ storeUp
    /\ storeUp' = FALSE
    /\ UNCHANGED <<products, orders, now, pending, last>>

StoreRecovers ==
    /\ ~storeUp
    /\ storeUp' = TRUE
    /\ UNCHANGED <<products, orders, now, pending, last>>

Tick ==
    /\ now + 1 \in Instants
    /\ now' = now + 1
    /\ UNCHANGED <<products, orders, storeUp, pending, last>>

----------------------------------------------------------------------------
(* GET /products *)

\* query_filter without its "sizes.size" entry
MatchesProductNameOnly(product, name, size) ==
    (name # None /\ name[1] # <<>>) => RegexSearch(name[1], product.name)

\* query_filter as a predicate on a product document
MatchesProduct(product, name, size) ==
    /\ (name # None /\ name[1] # <<>>) => RegexSearch(name[1], product.name)
    /\ (size # None /\ size[1] # "") =>
            \E i \in 1..Len(product.sizes) : product.sizes[i].size = size[1]

list_products(name, size, limit, offset) ==
    LET req == [name |-> name, size |-> size, limit |-> limit, offset |-> offset]
        matching == SelectSeq(products, LAMBDA p : MatchesProduct(p, name, size))
    IN  /\ UNCHANGED <<products, orders, storeUp, now, pending>>
        /\ IF offset < 0
           THEN last' = Response("list_products", req, 500, Detail(<<"ValueError">>))
           ELSE IF ~storeUp
           THEN last' = Response("list_products", req, 500, Detail(<<"store">>))
           ELSE IF name # None /\ name[1] # <<>> /\ ~RegexCompiles(name[1])
           THEN last' = Response("list_products", req, 500, Detail(<<"OperationFailure">>))
           ELSE last' = Response("list_products", req, 200,
                    [products |-> ProductsOf(Limit(Skip(matching, offset), limit))])

----------------------------------------------------------------------------
(* GET /orders/{user_id} *)

\* find({}) in place of find({"user_id": user_id})
get_user_orders_unfiltered(user_id, limit, offset) ==
    LET req == [user_id |-> user_id, limit |-> limit, offset |-> offset]
    IN  /\ UNCHANGED <<products, orders, storeUp, now, pending>>
        /\ IF offset < 0
           THEN last' = Response("get_user_orders", req, 500, Detail(<<"ValueError">>))
           ELSE IF ~storeUp
           THEN last' = Response("get_user_orders", req, 500, Detail(<<"store">>))
           ELSE last' = Response("get_user_orders", req, 200,
                    [orders |-> OrdersOf(Limit(Skip(orders, offset), limit))])

get_user_orders(user_id, limit, offset) ==
    LET req == [user_id |-> user_id, limit |-> limit, offset |-> offset]
        matching == SelectSeq(orders, LAMBDA o : o.user_id = user_id)
    IN  /\ UNCHANGED <<products, orders, storeUp, now, pending>>
        /\ IF offset < 0
           THEN last' = Response("get_user_orders", req, 500, Detail(<<"ValueError">>))
           ELSE IF ~storeUp
           THEN last' = Response("get_user_orders", req, 500, Detail(<<"store">>))
           ELSE last' = Response("get_user_orders", req, 200,
                    [orders |-> OrdersOf(Limit(Skip(matching, offset), limit))])

----------------------------------------------------------------------------
(* GET / and GET /health *)

root ==
    /\ UNCHANGED <<products, orders, storeUp, now, pending>>
    /\ last' = Response("root", NoRequest, 200,
                        [message |-> "Ecommerce Backend API is running"])

\* db is a Database, so db.admin.command is the collection "admin.command"
\* and calling it raises TypeError, which the handler reports in the body
health_check ==
    /\ UNCHANGED <<products, orders, storeUp, now, pending>>
    /\ last' = Response("health_check", NoRequest, 200,
                [status |-> "unhealthy", database |-> "disconnected",
                 error |-> "TypeError"])

----------------------------------------------------------------------------
(* The write path: every endpoint, the store failing and recovering, the   *)
(* clock advancing; one create_order in flight, interleaved with the rest  *)

Next ==
    \/ \E body \in ProductBodies : create_product(body)
    \/ \E w \in Single, body \in OrderBodies : BeginOrder(w, body)
    \/ \E w \in Single : LookupItem(w)
    \/ \E w \in Single : InsertOrder(w)
    \/ \E q \in EdgeQueries : list_products(q[1], q[2], q[3], q[4])
    \/ \E limit \in {-1, 1}, offset \in {-1, 0} : get_user_orders("u1", limit, offset)
    \/ root
    \/ health_check
    \/ StoreFails
    \/ StoreRecovers
    \/ Tick

Spec == Init /\ [][Next]_vars

(* The catalog: products are created and listed under every filter,       *)
(* limit and offset                                                        *)

NextCatalog ==
    \/ \E body \in CatalogBodies : create_product(body)
    \/ \E name \in NamePatterns, size \in SizeFilters,
          limit \in Limits, offset \in Offsets :
            list_products(name, size, limit, offset)

SpecCatalog == Init /\ [][NextCatalog]_vars

(* The orders of several users: orders are created against one product and *)
(* both collections are paged                                              *)

NextOrders ==
    \/ create_product(Tee)
    \/ \E w \in Workers, body \in UserOrderBodies : BeginOrder(w, body)
    \/ \E w \in Workers : LookupItem(w)
    \/ \E w \in Workers : InsertOrder(w)
    \/ \E limit \in Limits, offset \in Offsets :
            list_products(None, None, limit, offset)
    \/ \E user_id \in Users, limit \in Limits, offset \in Offsets :
            get_user_orders(user_id, limit, offset)

SpecOrders == Init /\ [][NextOrders]_vars

(* The race: several create_order requests in flight, their lookups and   *)
(* inserts interleaved with each other and with create_product             *)

NextRace ==
    \/ create_product(Tee)
    \/ \E w \in Workers, body \in OrderBodies : BeginOrder(w, body)
    \/ \E w \in Workers : LookupItem(w)
    \/ \E w \in Workers : InsertOrder(w)

SpecRace == Init /\ [][NextRace]_vars

----------------------------------------------------------------------------
(* Vocabulary of the properties *)

\* the text pid denotes a product of the products collection
Exists(pid) ==
    IsValidOid(pid) /\ \E i \in 1..Len(products) : products[i]._id = ObjectId(pid)

\* the create_order request of slot w completes in this step
Completes(w) == pending[w].pc # "idle" /\ pending'[w].pc = "idle"

\* the kind of error a response reports, "ok" when it reports none
ErrorKind(resp) == IF "detail" \in DOMAIN resp.body THEN resp.body.detail[1] ELSE "ok"

IsPrefix(s, t) == Len(s) <= Len(t) /\ SubSeq(t, 1, Len(s)) = s

RECURSIVE TotalOf(_)
\* the sum of the caller-supplied amounts, nothing else read
TotalOf(items) ==
    IF items = <<>> THEN 0 ELSE items[1].total_amount + TotalOf(Tail(items))

----------------------------------------------------------------------------
(* C1: every create_order request with an item whose product_id is not in *)
(* the products collection is answered 400 naming a missing product_id,   *)
(* and leaves the orders collection as it was, wherever the missing item  *)
(* stands (the store answering its operations).                           *)

C1_MissingProductRejected ==
    [][\A w \in Workers :
        LET items == pending[w].order.items
        IN  (Completes(w) /\ storeUp
                /\ \E i \in 1..Len(items) : ~Exists(items[i].product_id))
            => /\ last'.op = "create_order"
               /\ last'.status = 400
               /\ ErrorKind(last') = "Product"
               /\ \E i \in 1..Len(items) :
                    /\ last'.body.detail[2] = items[i].product_id
                    /\ ~Exists(items[i].product_id)
               /\ orders' = orders]_vars

----------------------------------------------------------------------------
(* C2: a create_order request whose items all exist is answered 201 and   *)
(* adds exactly one order, whose total_amount is the sum of the items'    *)
(* supplied total_amount, whatever the prices and the bought quantities   *)
(* (the store answering its operations).                                  *)

C2_OrderTotal ==
    [][\A w \in Workers :
        LET order == pending[w].order
        IN  (Completes(w) /\ storeUp
                /\ \A i \in 1..Len(order.items) : Exists(order.items[i].product_id))
            => /\ last'.op = "create_order"
               /\ last'.req = order
               /\ last'.status = 201
               /\ Len(orders') = Len(orders) + 1
               /\ IsPrefix(orders, orders')
               /\ orders'[Len(orders')].items = order.items
               /\ orders'[Len(orders')].user_id = order.user_id
               /\ orders'[Len(orders')].total_amount = TotalOf(order.items)
               /\ last'.body.id = Str(orders'[Len(orders')]._id)]_vars

C2_Witness ==
    /\ last.op = "create_order"
    /\ last.status = 201
    /\ Len(last.req.items) = 2
    /\ orders # <<>>
    /\ orders[Len(orders)].total_amount = 7

----------------------------------------------------------------------------
(* C3: a create_order request with an item whose product_id is not a      *)
(* well-formed identifier is answered with a 4xx status, never 500 (the   *)
(* store answering its operations), and no such order is persisted.       *)

C3_InvalidIdIsClientFault ==
    /\ (/\ last.op = "create_order"
        /\ "items" \in DOMAIN last.req
        /\ \E i \in 1..Len(last.req.items) :
                ~IsValidOid(last.req.items[i].product_id)
        /\ ErrorKind(last) # "store")
       => last.status \in 400..499
    /\ \A i \in 1..Len(orders) :
         \A j \in 1..Len(orders[i].items) : IsValidOid(orders[i].items[j].product_id)

----------------------------------------------------------------------------
(* C4: every persisted order has a non-empty items sequence: a            *)
(* create_order request with no items is answered with a validation       *)
(* error and persists nothing.                                            *)

C4_OrdersHaveItems ==
    /\ \A i \in 1..Len(orders) : orders[i].items # <<>>
    /\ (/\ last.op = "create_order"
        /\ "items" \in DOMAIN last.req
        /\ last.req.items = <<>>
        /\ ErrorKind(last) # "store")
       => last.status \in {400, 422}

----------------------------------------------------------------------------
(* C5: every persisted product has price >= 0: a create_product request   *)
(* with a negative price is answered with a validation error and the      *)
(* products collection is left as it was.                                 *)

C5_PricesNonNegative ==
    /\ \A i \in 1..Len(products) : products[i].price >= 0
    /\ (/\ last.op = "create_product"
        /\ "price" \in DOMAIN last.req
        /\ last.req.price < 0)
       => last.status \in {400, 422}

----------------------------------------------------------------------------
(* C6: under every interleaving of create_product with the lookups and    *)
(* inserts of create_order requests, every product_id of every item of    *)
(* every persisted order identifies a product of the products collection. *)

C6_NoDanglingReference ==
    \A i \in 1..Len(orders) :
        \A j \in 1..Len(orders[i].items) : Exists(orders[i].items[j].product_id)

\* an order referencing two products is persisted while another request has
\* passed its lookups and a product was created after the first
C6_Witness ==
    /\ \E i \in 1..Len(orders) : Len(orders[i].items) = 2
    /\ \E w \in Workers : pending[w].pc = "insert" /\ pending[w].order.items # <<>>
    /\ Len(products) >= 2

----------------------------------------------------------------------------
(* C7: no step modifies or removes an existing record: each collection    *)
(* only grows at its end, only a successful create_product changes the    *)
(* products collection and it leaves the orders collection alone, only a  *)
(* successful create_order changes the orders collection and it leaves    *)
(* the products collection alone; the listings and the probes change      *)
(* neither.                                                               *)

C7_RecordsAreImmutable ==
    [][/\ IsPrefix(products, products')
       /\ IsPrefix(orders, orders')
       /\ products' # products =>
            /\ last'.op = "create_product" /\ last'.status = 201
            /\ Len(products') = Len(products) + 1
            /\ orders' = orders
            /\ pending' = pending
       /\ orders' # orders =>
            /\ last'.op = "create_order" /\ last'.status = 201
            /\ Len(orders') = Len(orders) + 1
            /\ products' = products
       /\ (\E w \in Workers : pending'[w] # pending[w]) => products' = products
       /\ (last'.op \in {"list_products", "get_user_orders", "root", "health_check"}
              /\ (last'.op # last.op \/ last'.status # last.status))
            => products' = products /\ orders' = orders]_vars

\* both collections hold a record and a listing has just been answered
C7_Witness ==
    /\ products # <<>>
    /\ orders # <<>>
    /\ last.op = "get_user_orders"
    /\ last.status = 200
    /\ last.body.orders # <<>>

----------------------------------------------------------------------------
(* C8 as stated: list_products returns only products that satisfy every   *)
(* supplied filter: the name contains the supplied name as a              *)
(* case-insensitive substring, a sizes entry equals the supplied size     *)
(* exactly; with no filter supplied no product is left out by filtering.  *)

FoldCase(c) == IF c = "A" THEN "a" ELSE IF c = "B" THEN "b" ELSE c

\* sub occurs in text, letter case ignored
ContainsCI(text, sub) ==
    \E s \in 0..(Len(text) - Len(sub)) :
        \A i \in 1..Len(sub) : FoldCase(text[s + i]) = FoldCase(sub[i])

\* pat occurs in text, letter case ignored, a "." of pat standing for any character
OccursAsPattern(text, pat) ==
    \E s \in 0..(Len(text) - Len(pat)) :
        \A i \in 1..Len(pat) : pat[i] = "." \/ FoldCase(text[s + i]) = FoldCase(pat[i])

HasSize(r, size) == \E i \in 1..Len(r.sizes) : r.sizes[i].size = size

\* nothing is left out but by the offset and the limit
OnlyPaged(result, coll, offset, limit) ==
    /\ \A i \in 1..Len(result) : offset + i <= Len(coll)
    /\ Len(result) = Len(coll) - offset \/ Len(result) = limit
          \/ (Len(coll) <= offset /\ result = <<>>)

C8_NameIsSubstring ==
    (last.op = "list_products" /\ last.status = 200) =>
        LET result == last.body.products
            name == last.req.name
            size == last.req.size
        IN  /\ \A i \in 1..Len(result) :
                /\ \E p \in Range(products) : product_helper(p) = result[i]
                /\ name # None => ContainsCI(result[i].name, name[1])
                /\ size # None => HasSize(result[i], size[1])
            /\ (name = None /\ size = None) =>
                /\ OnlyPaged(result, products, last.req.offset, last.req.limit)
                /\ \A i \in 1..Len(result) :
                        result[i].product_id = Str(products[last.req.offset + i]._id)

(* C8 amended: a supplied non-empty name is a case-insensitive regular    *)
(* expression searched anywhere in the product's name, so a name of       *)
(* letters only must occur as a case-insensitive substring and a "."      *)
(* stands for any character; a supplied non-empty size must equal the     *)
(* size of a sizes entry exactly; both hold when both are supplied; an    *)
(* empty name or size counts as not supplied, and with neither supplied   *)
(* no product is left out by filtering.                                   *)

Supplied(opt, empty) == opt # None /\ opt[1] # empty

C8_NameIsPattern ==
    (last.op = "list_products" /\ last.status = 200) =>
        LET result == last.body.products
            name == last.req.name
            size == last.req.size
        IN  /\ \A i \in 1..Len(result) :
                /\ \E p \in Range(products) : product_helper(p) = result[i]
                /\ Supplied(name, <<>>) => OccursAsPattern(result[i].name, name[1])
                /\ (Supplied(name, <<>>) /\ "." \notin Range(name[1]))
                        => ContainsCI(result[i].name, name[1])
                /\ Supplied(size, "") => HasSize(result[i], size[1])
            /\ (~Supplied(name, <<>>) /\ ~Supplied(size, "")) =>
                /\ OnlyPaged(result, products, last.req.offset, last.req.limit)
                /\ \A i \in 1..Len(result) :
                        result[i].product_id = Str(products[last.req.offset + i]._id)

\* a "." pattern and a size supplied: a product whose name holds no "." is
\* returned and another product is filtered out by its sizes
C8_Witness ==
    /\ last.op = "list_products"
    /\ last.status = 200
    /\ last.req.name = Some(<<".">>)
    /\ last.req.size = Some("M")
    /\ last.req.limit = 0
    /\ last.body.products # <<>>
    /\ \A i \in 1..Len(last.body.products) : "." \notin Range(last.body.products[i].name)
    /\ Len(products) > Len(last.body.products)

----------------------------------------------------------------------------
(* C9: for list_products and get_user_orders, for every offset >= 0 and   *)
(* limit >= 0, the result is the matching records in insertion order with *)
(* the first offset skipped and at most limit returned.                   *)

\* the records of s after the first offset, at most limit of them
PageOf(s, offset, limit) ==
    [i \in 1..(IF Len(s) - offset < limit
               THEN (IF Len(s) > offset THEN Len(s) - offset ELSE 0)
               ELSE limit) |-> s[offset + i]]

C9_SkipThenAtMostLimit ==
    /\ (last.op = "list_products" /\ last.status = 200
            /\ last.req.name = None /\ last.req.size = None
            /\ last.req.offset >= 0 /\ last.req.limit >= 0)
        => last.body.products =
            PageOf([i \in 1..Len(products) |-> product_helper(products[i])],
                   last.req.offset, last.req.limit)
    /\ (last.op = "get_user_orders" /\ last.status = 200
            /\ last.req.offset >= 0 /\ last.req.limit >= 0)
        => last.body.orders =
            PageOf(SelectSeq([i \in 1..Len(orders) |-> order_helper(orders[i])],
                             LAMBDA o : o.user_id = last.req.user_id),
                   last.req.offset, last.req.limit)

----------------------------------------------------------------------------
(* C10: get_user_orders(user_id) returns only orders whose user_id equals *)
(* the requested one, whatever orders the users have created, and an      *)
(* order of that user is in the result when offset and limit cover its    *)
(* position among that user's orders.                                     *)

\* the position of orders[i] among the orders of its user
PositionOf(i) ==
    Cardinality({j \in 1..i : orders[j].user_id = orders[i].user_id})

C10_OnlyTheUsersOrders ==
    (last.op = "get_user_orders" /\ last.status = 200) =>
        LET result == last.body.orders
            req == last.req
        IN  /\ \A k \in 1..Len(result) :
                /\ result[k].user_id = req.user_id
                /\ \E i \in 1..Len(orders) :
                        /\ Str(orders[i]._id) = result[k].order_id
                        /\ orders[i].user_id = req.user_id
            /\ \A i \in 1..Len(orders) :
                (/\ orders[i].user_id = req.user_id
                 /\ req.offset < PositionOf(i)
                 /\ PositionOf(i) <= req.offset + req.limit)
                => \E k \in 1..Len(result) : result[k].order_id = Str(orders[i]._id)

\* orders of two users are stored and the listing returned one user's order
C10_Witness ==
    /\ last.op = "get_user_orders"
    /\ last.status = 200
    /\ last.body.orders # <<>>
    /\ \E i \in 1..Len(orders) : orders[i].user_id # last.req.user_id
    /\ last.req.limit = 1

====
